---- MODULE Spec2Model ----
(***************************************************************************)
(* A model of the crawl4ai proxy (src/main.go): the HTTP handler           *)
(* CrawlEndpoint, the upstream caller with candidate fallback, and the     *)
(* pure helpers that decode and reshape the upstream answer.               *)
(*                                                                         *)
(* Go strings whose characters matter (content type, upstream body text,   *)
(* body preview, error detail) are sequences of one-character strings.     *)
(* Go strings that are only compared and tested for emptiness (URLs, JSON  *)
(* string values, metadata) are TLA+ strings.                              *)
(***************************************************************************)
EXTENDS Integers, Sequences, FiniteSets, TLC

\* ------------------------------------------------------------------ bounds
\* Longest `urls` list a modelled client sends.
MaxUrls == 2
\* Longest sequence a modelled upstream answer carries.
MaxItems == 2
\* How far past maxLen the longest modelled upstream body text goes.
MaxOver == 3

SeqsUpTo(S, n) == UNION {[1..k -> S] : k \in 0..n}

\* ------------------------------------------------------- JSON values (any)
\* encoding/json's dynamic values: nil, string, float64, []any, map[string]any.
Null == [t |-> "null"]
Str(s) == [t |-> "str", s |-> s]
Num(n) == [t |-> "num", n |-> n]
Bool(b) == [t |-> "bool", b |-> b]
Arr(a) == [t |-> "arr", a |-> a]
Obj(o) == [t |-> "obj", o |-> o]

\* A Go map with no entries.
EmptyMap == [k \in {} |-> Null]

\* Indexing a map[string]any: a missing key yields the nil interface value.
Lookup(m, k) == IF k \in DOMAIN m THEN m[k] ELSE Null

\* m with m[k] = v set (Go map assignment).
MapSet(m, k, v) == [x \in (DOMAIN m) \cup {k} |-> IF x = k THEN v ELSE m[x]]

\* Go slices: a nil slice is distinct from an empty, non-nil one.
NilSlice == [isNil |-> TRUE, elems |-> <<>>]
Slice(s) == [isNil |-> FALSE, elems |-> s]

\* ------------------------------------------------------------ decodeResults
IsMap(v) == v.t = "obj"

convertList(rawList) ==
  IF rawList.t /= "arr"
  THEN [list |-> NilSlice, ok |-> FALSE]
  ELSE LET objs == SelectSeq(rawList.a, IsMap)
       IN [list |-> Slice([i \in 1..Len(objs) |-> objs[i].o]), ok |-> TRUE]

\* Variant: `data` is looked up before `results`.
decodeResults_dataFirst(payload) ==
  CASE payload.t = "arr" -> convertList(payload).list
    [] payload.t = "obj" ->
         LET withResults == convertList(Lookup(payload.o, "results"))
             withData == convertList(Lookup(payload.o, "data"))
         IN IF withData.ok THEN withData.list
            ELSE IF withResults.ok THEN withResults.list
            ELSE Slice(<<payload.o>>)
    [] OTHER -> NilSlice

decodeResults(payload) ==
  CASE payload.t = "arr" -> convertList(payload).list
    [] payload.t = "obj" ->
         LET withResults == convertList(Lookup(payload.o, "results"))
             withData == convertList(Lookup(payload.o, "data"))
         IN IF withResults.ok THEN withResults.list
            ELSE IF withData.ok THEN withData.list
            ELSE Slice(<<payload.o>>)
    [] OTHER -> NilSlice

\* --------------------------------------------------------- stringMapFromAny
IsNonEmptyString(v) == v.t = "str" /\ v.s /= ""

stringMapFromAny(data) ==
  IF data.t = "obj"
  THEN [k \in {x \in DOMAIN data.o : IsNonEmptyString(data.o[x])} |-> data.o[k].s]
  ELSE [k \in {} |-> ""]

\* ---------------------------------------------------------- extractMarkdown
TopLevelKeys == <<"filtered_markdown", "fit_markdown", "markdown", "raw_markdown", "content", "page_content">>
\* Variant: the raw markdown of a nested object is looked up first.
NestedKeys_rawFirst == <<"raw_markdown", "filtered_markdown", "fit_markdown", "markdown">>

NestedKeys == <<"filtered_markdown", "fit_markdown", "markdown", "raw_markdown">>

\* The `for _, key := range keys` loops: the first key holding a non-empty
\* string, from position i on; "" when the loop falls through.
RECURSIVE FirstNonEmptyString(_, _, _)
FirstNonEmptyString(m, keys, i) ==
  IF i > Len(keys) THEN ""
  ELSE IF keys[i] \in DOMAIN m /\ IsNonEmptyString(m[keys[i]]) THEN m[keys[i]].s
  ELSE FirstNonEmptyString(m, keys, i + 1)

\* Variant: a nested `markdown` object is not looked into.
extractMarkdown_topLevelOnly(result) == FirstNonEmptyString(result, TopLevelKeys, 1)

extractMarkdown(result) ==
  LET top == FirstNonEmptyString(result, TopLevelKeys, 1)
  IN IF top /= "" THEN top
     ELSE IF "markdown" \notin DOMAIN result THEN ""
     ELSE IF result["markdown"].t /= "obj" THEN ""
     ELSE FirstNonEmptyString(result["markdown"].o, NestedKeys, 1)

\* ------------------------------------------------------- metadata assembly
\* Variant: an upstream `source` is kept when the record also has a url.
assembleMetadata_keepUpstreamSource(result) ==
  LET metadata == stringMapFromAny(Lookup(result, "metadata"))
      url == Lookup(result, "url")
  IN IF IsNonEmptyString(url) /\ "source" \notin DOMAIN metadata
     THEN MapSet(metadata, "source", url.s) ELSE metadata

\* CrawlEndpoint's loop body: metadata from the record, `source` from `url`.
assembleMetadata(result) ==
  LET metadata == stringMapFromAny(Lookup(result, "metadata"))
      url == Lookup(result, "url")
  IN IF IsNonEmptyString(url) THEN MapSet(metadata, "source", url.s) ELSE metadata

\* One SuccessResponseItem as json.Marshal writes it.
SuccessResponseItem(result) ==
  Obj([page_content |-> Str(extractMarkdown(result)),
       metadata |-> Obj([k \in DOMAIN assembleMetadata(result) |-> Str(assembleMetadata(result)[k])])])

\* -------------------------------------------------- Go strings as characters
\* strings.HasPrefix
HasPrefix(s, prefix) == Len(s) >= Len(prefix) /\ SubSeq(s, 1, Len(prefix)) = prefix

IsSpace(c) == c \in {" ", "\t", "\n", "\r"}

\* strings.TrimSpace
TrimSpace(s) ==
  LET keep == {i \in 1..Len(s) : ~IsSpace(s[i])}
  IN IF keep = {} THEN <<>>
     ELSE SubSeq(s, CHOOSE i \in keep : \A j \in keep : i <= j,
                    CHOOSE i \in keep : \A j \in keep : i >= j)

\* fmt's %d for a non-negative integer
RECURSIVE Digits(_)
Digits(n) ==
  LET d == <<"0", "1", "2", "3", "4", "5", "6", "7", "8", "9">>[(n % 10) + 1]
  IN IF n < 10 THEN <<d>> ELSE Append(Digits(n \div 10), d)

\* A JSON string whose characters are modelled.
Text(chars) == [t |-> "str", c |-> chars]

\* ------------------------------------------------------- request and errors
\* The Request struct; Urls is a slice, Url a string ("" when not set).
Request(urls, url) == [Urls |-> urls, Url |-> url]

\* A Go error value: nil, or an error with its message.
NoErr == [isNil |-> TRUE, msg |-> <<>>]
Error(msg) == [isNil |-> FALSE, msg |-> msg]

\* json.NewDecoder(request.Body).Decode(&requestData): the body is either text
\* that is no JSON document, or a document given by its value. null leaves the
\* struct zero; fields of the wrong JSON type are errors; a null list element
\* leaves the element "".  The library's messages are abbreviated.
SyntaxErrorText == <<"s", "y", "n", "t", "a", "x">>
TypeErrorText == <<"t", "y", "p", "e">>

IsStringOrNull(v) == v.t \in {"str", "null"}

decodeUrlsOk(v) == v.t = "null" \/ (v.t = "arr" /\ \A i \in 1..Len(v.a) : IsStringOrNull(v.a[i]))
decodeUrls(v) ==
  IF v.t = "arr"
  THEN Slice([i \in 1..Len(v.a) |-> IF v.a[i].t = "str" THEN v.a[i].s ELSE ""])
  ELSE NilSlice

decodeRequest(body) ==
  IF body.kind /= "json" THEN [err |-> Error(SyntaxErrorText), requestData |-> Request(NilSlice, "")]
  ELSE IF body.value.t = "null" THEN [err |-> NoErr, requestData |-> Request(NilSlice, "")]
  ELSE IF body.value.t /= "obj" THEN [err |-> Error(TypeErrorText), requestData |-> Request(NilSlice, "")]
  ELSE LET urls == Lookup(body.value.o, "urls")
           url == Lookup(body.value.o, "url")
       IN IF decodeUrlsOk(urls) /\ IsStringOrNull(url)
          THEN [err |-> NoErr,
                requestData |-> Request(decodeUrls(urls), IF url.t = "str" THEN url.s ELSE "")]
          ELSE [err |-> Error(TypeErrorText), requestData |-> Request(NilSlice, "")]

\* ----------------------------------------------------- normalizeRequestUrls
NonEmpty(s) == s /= ""

\* Variant: the list entries are taken as they are, empty ones included.
normalizeRequestUrls_keepEmpty(requestData) ==
  Slice(requestData.Urls.elems
        \o (IF requestData.Url /= "" THEN <<requestData.Url>> ELSE <<>>))

\* Variant: the single URL is put before the list entries.
normalizeRequestUrls_urlFirst(requestData) ==
  Slice((IF requestData.Url /= "" THEN <<requestData.Url>> ELSE <<>>)
        \o SelectSeq(requestData.Urls.elems, NonEmpty))

normalizeRequestUrls(requestData) ==
  Slice(SelectSeq(requestData.Urls.elems, NonEmpty)
        \o (IF requestData.Url /= "" THEN <<requestData.Url>> ELSE <<>>))

\* ---------------------------------------------- crawlRequestPayloadCandidates
\* json.Marshal of a Request: `urls` is always written (null for a nil slice),
\* `url` is omitted when empty; the struct has no other field.
jsonEncodeRequest(req) ==
  LET urls == IF req.Urls.isNil THEN Null
              ELSE Arr([i \in 1..Len(req.Urls.elems) |-> Str(req.Urls.elems[i])])
  IN IF req.Url = "" THEN Obj([urls |-> urls]) ELSE Obj([urls |-> urls, url |-> Str(req.Url)])

\* Variant: the URL-list shape is tried before the single-URL shape.
crawlRequestPayloadCandidates_listFirst(urls) ==
  IF Len(urls.elems) = 1
  THEN <<jsonEncodeRequest(Request(urls, "")), jsonEncodeRequest(Request(NilSlice, urls.elems[1]))>>
  ELSE <<jsonEncodeRequest(Request(urls, ""))>>

crawlRequestPayloadCandidates(urls) ==
  IF Len(urls.elems) = 1
  THEN <<jsonEncodeRequest(Request(NilSlice, urls.elems[1])), jsonEncodeRequest(Request(urls, ""))>>
  ELSE <<jsonEncodeRequest(Request(urls, ""))>>

\* ------------------------------------------------------- previewResponseBody
maxLen == 300

\* Variant: the body is cut without being trimmed first.
previewResponseBody_untrimmed(body) ==
  IF Len(body) > maxLen THEN SubSeq(body, 1, maxLen) \o <<".", ".", ".">> ELSE body

previewResponseBody(body) ==
  LET text == TrimSpace(body)
  IN IF Len(text) > maxLen THEN SubSeq(text, 1, maxLen) \o <<".", ".", ".">> ELSE text

\* ---------------------------------------------------------------- callCrawlAPI
CrawlAPICallResult(data, statusCode, bodyPreview, err) ==
  [Data |-> data, StatusCode |-> statusCode, BodyPreview |-> bodyPreview, Err |-> err]

\* var lastResult CrawlAPICallResult
ZeroResult == CrawlAPICallResult(Null, 0, <<>>, NoErr)

InvalidJsonText == <<"i", "n", "v", "a", "l", "i", "d", " ", "j", "s", "o", "n", " ", "r", "e", "c", "e", "i", "v", "e", "d", " ", "f", "r", "o", "m", " ", "c", "r", "a", "w", "l", " ", "a", "p", "i">>

\* What one call yields, given how the transport answered:
\*   newRequestError  http.NewRequest rejects the configured endpoint
\*   doError          DefaultClient.Do fails (connection, DNS, timeout)
\*   readError        the response body cannot be read to its end
\*   response         a status and a body
callCrawlAPI(payload, reply) ==
  CASE reply.kind \in {"newRequestError", "doError", "readError"} ->
         CrawlAPICallResult(Null, 0, <<>>, Error(reply.err))
    [] reply.kind = "response" /\ reply.status /= 200 ->
         CrawlAPICallResult(Null, reply.status, previewResponseBody(reply.body.chars), NoErr)
    [] reply.kind = "response" /\ reply.status = 200 /\ reply.body.kind /= "json" ->
         CrawlAPICallResult(Null, reply.status, <<>>, Error(InvalidJsonText))
    [] OTHER ->
         CrawlAPICallResult(reply.body.value, reply.status, <<>>, NoErr)

\* ------------------------------------------------------------- CrawlEndpoint
\* What the handler writes: WriteHeader's status and the JSON body.
Response(status, body) == [status |-> status, body |-> body]
NoResponse == Response(0, Null)

\* json.Marshal of an ErrorResponse: both fields are always written.
jsonEncodeErrorResponse(errorName, detail) == Obj([error |-> Str(errorName), detail |-> Text(detail)])
ErrorReply(status, errorName, detail) == Response(status, jsonEncodeErrorResponse(errorName, detail))

ApplicationJson == <<"a", "p", "p", "l", "i", "c", "a", "t", "i", "o", "n", "/", "j", "s", "o", "n">>
\* "request must include `url` or `urls`", without the backquotes
MustIncludeText == <<"r", "e", "q", "u", "e", "s", "t", " ", "m", "u", "s", "t", " ", "i", "n", "c", "l", "u", "d", "e", " ", "u", "r", "l", " ", "o", "r", " ", "u", "r", "l", "s">>
StatusText == <<"c", "r", "a", "w", "l", " ", "a", "p", "i", " ", "r", "e", "t", "u", "r", "n", "e", "d", " ", "s", "t", "a", "t", "u", "s", " ">>
InvalidStructureText == <<"i", "n", "v", "a", "l", "i", "d", " ", "j", "s", "o", "n", " ", "s", "t", "r", "u", "c", "t", "u", "r", "e", " ", "r", "e", "c", "e", "i", "v", "e", "d", " ", "f", "r", "o", "m", " ", "c", "r", "a", "w", "l", " ", "a", "p", "i">>

\* Variant: the content type is checked before the method.
validateRequest_contentTypeFirst(req) ==
  IF ~HasPrefix(req.contentType, ApplicationJson)
  THEN ErrorReply(400, "content type must be application/json", <<>>)
  ELSE IF req.method /= "POST" THEN ErrorReply(405, "method not allowed", <<>>)
  ELSE IF ~decodeRequest(req.body).err.isNil
  THEN ErrorReply(400, "invalid json", decodeRequest(req.body).err.msg)
  ELSE IF Len(normalizeRequestUrls(decodeRequest(req.body).requestData).elems) = 0
  THEN ErrorReply(400, "invalid json", MustIncludeText)
  ELSE NoResponse

\* The checks made before any upstream call, in the handler's order; NoResponse
\* when the request passes them all.
validateRequest(req) ==
  IF req.method /= "POST" THEN ErrorReply(405, "method not allowed", <<>>)
  ELSE IF ~HasPrefix(req.contentType, ApplicationJson)
  THEN ErrorReply(400, "content type must be application/json", <<>>)
  ELSE IF ~decodeRequest(req.body).err.isNil
  THEN ErrorReply(400, "invalid json", decodeRequest(req.body).err.msg)
  ELSE IF Len(normalizeRequestUrls(decodeRequest(req.body).requestData).elems) = 0
  THEN ErrorReply(400, "invalid json", MustIncludeText)
  ELSE NoResponse

\* Variant: `len(crawlResults) == 0`
IsMalformed_whenEmpty(crawlResults) == Len(crawlResults.elems) = 0

\* `crawlResults == nil`
IsMalformed(crawlResults) == crawlResults.isNil

\* The handler from the fallback's return to the response.
respondToResult(crawlAPICallResult) ==
  IF ~crawlAPICallResult.Err.isNil
  THEN ErrorReply(502, "bad gateway", crawlAPICallResult.Err.msg)
  ELSE IF crawlAPICallResult.StatusCode /= 200
  THEN ErrorReply(502, "bad gateway",
         StatusText \o Digits(crawlAPICallResult.StatusCode)
         \o (IF crawlAPICallResult.BodyPreview /= <<>>
             THEN <<":", " ">> \o crawlAPICallResult.BodyPreview ELSE <<>>))
  ELSE LET crawlResults == decodeResults(crawlAPICallResult.Data)
       IN IF IsMalformed(crawlResults)
          THEN ErrorReply(502, "bad gateway", InvalidStructureText)
          ELSE Response(200, Arr([i \in 1..Len(crawlResults.elems) |->
                                     SuccessResponseItem(crawlResults.elems[i])]))

\* ------------------------------------------------- callCrawlAPIWithFallback
\* Variant: any answered call ends the loop, whatever its status.
IsSuccess_anyStatus(result) == result.Err.isNil

\* `result.Err == nil && result.StatusCode == 200`
IsSuccess(result) == result.Err.isNil /\ result.StatusCode = 200

\* Variant: the first failure is kept, later ones are dropped.
updateLastResult_keepFirst(lastResult, result) ==
  IF lastResult.StatusCode = 0 /\ lastResult.Err.isNil THEN result ELSE lastResult

\* `lastResult = result`
updateLastResult(lastResult, result) == result

\* ------------------------------------------------------------------- inputs
JsonBody(v) == [kind |-> "json", value |-> v]
TextBody(chars) == [kind |-> "text", chars |-> chars]

\* A field that may be left out of an object, and the object built from
\* fields of which some are left out.
Absent == [t |-> "absent"]
Opt(S) == S \cup {Absent}
MakeObj(fields) == [k \in {x \in DOMAIN fields : fields[x] /= Absent} |-> fields[k]]

ClientUrls == {"u1", "u2"}
Methods == {"POST", "GET"}
ContentTypes ==
  {ApplicationJson,
   ApplicationJson \o <<";", " ", "c", "h", "a", "r", "s", "e", "t", "=", "u", "t", "f", "-", "8">>,
   SubSeq(ApplicationJson, 1, 15),
   <<"a", "p", "p", "l", "i", "c", "a", "t", "i", "o", "n", "/", "p", "d", "f">>,
   <<>>}
UrlsFieldValues ==
  {Null, Str("u1"), Arr(<<Num(1)>>), Arr(<<Null>>)}
  \cup {Arr(a) : a \in SeqsUpTo({Str(u) : u \in ClientUrls \cup {""}}, MaxUrls)}
UrlFieldValues == {Null, Num(1)} \cup {Str(u) : u \in ClientUrls \cup {""}}
RequestBodies ==
  {TextBody(<<"h", "i">>), JsonBody(Null), JsonBody(Str("u1")), JsonBody(Arr(<<Str("u1")>>))}
  \cup {JsonBody(Obj(MakeObj([urls |-> urls, url |-> url])))
        : urls \in Opt(UrlsFieldValues), url \in Opt(UrlFieldValues)}
Requests == [method : Methods, contentType : ContentTypes, body : RequestBodies]

\* Upstream result records and answers for the end-to-end runs.
RecHello == [url |-> Str("u1"), markdown |-> Obj([fit_markdown |-> Str("Hello")])]
RecMeta ==
  [url |-> Str(""), content |-> Str("c"),
   metadata |-> Obj([source |-> Str("s"), title |-> Str("t"), size |-> Num(1), lang |-> Str("")])]
RecEmpty == [k \in {} |-> Null]
UpstreamElements == {Obj(RecHello), Obj(RecMeta), Str("x")}
UpstreamLists == SeqsUpTo(UpstreamElements, MaxItems)
UpstreamValues ==
  {Null, Str("x"), Num(1), Bool(TRUE), Obj(RecHello), Obj(RecEmpty),
   Obj([results |-> Arr(<<>>), data |-> Arr(<<Obj(RecHello)>>)])}
  \cup {Arr(a) : a \in UpstreamLists}
  \cup {Obj([results |-> Arr(a)]) : a \in UpstreamLists}
  \cup {Obj([data |-> Arr(a)]) : a \in UpstreamLists}
  \cup {Obj([results |-> Str("x"), data |-> Arr(a)]) : a \in UpstreamLists}

HttpReply(status, body) == [kind |-> "response", status |-> status, body |-> body]
FailedReply(kind, err) == [kind |-> kind, err |-> err]
UpstreamReplies ==
  {FailedReply("doError", <<"r", "e", "f", "u", "s", "e", "d">>),
   FailedReply("doError", <<"t", "i", "m", "e", "o", "u", "t">>),
   FailedReply("readError", <<"E", "O", "F">>),
   HttpReply(200, TextBody(<<"o", "o", "p", "s">>))}
  \cup {HttpReply(204, TextBody(<<>>)), HttpReply(500, TextBody(<<"n", "o">>)),
        HttpReply(500, TextBody(<<" ", "b", "u", "s", "y", "\n">>))}
  \cup {HttpReply(200, JsonBody(v)) : v \in UpstreamValues}
BadEndpointReply == FailedReply("newRequestError", <<"b", "a", "d", " ", "u", "r", "l">>)

\* -------------------------------------------------------------------- state
VARIABLES
  endpointOk,          \* CRAWL4AI_ENDPOINT is a URL http.NewRequest accepts
  pc,                  \* "idle", "calling" (inside the fallback loop), "done"
  request,             \* the request being handled
  requestUrls,         \* normalizeRequestUrls(requestData)
  candidates,          \* crawlRequestPayloadCandidates(requestUrls)
  attempt,             \* index of the candidate the loop tries next
  lastResult,          \* the loop's lastResult
  crawlAPICallResult,  \* what callCrawlAPIWithFallback returned
  sent,                \* payloads POSTed to the upstream, in order
  replies,             \* how the transport answered each attempt, in order
  response,            \* what the handler wrote
  fn, arg, out         \* a helper applied on its own: name, input, output

handlerVars == <<pc, request, requestUrls, candidates, attempt, lastResult,
                 crawlAPICallResult, sent, replies, response>>
fnVars == <<fn, arg, out>>
vars == <<endpointOk, handlerVars, fnVars>>

NoRequest == [method |-> "", contentType |-> <<>>, body |-> TextBody(<<>>)]

Fresh ==
  /\ pc = "idle"
  /\ request = NoRequest
  /\ requestUrls = NilSlice
  /\ candidates = <<>>
  /\ attempt = 0
  /\ lastResult = ZeroResult
  /\ crawlAPICallResult = ZeroResult
  /\ sent = <<>>
  /\ replies = <<>>
  /\ response = NoResponse

\* ReadEnvironment fixes the endpoint once; nothing is being handled.
Init ==
  /\ endpointOk \in BOOLEAN
  /\ Fresh
  /\ fn = "" /\ arg = Null /\ out = Null

\* A request arrives: CrawlEndpoint up to its first upstream call.
Receive(req) ==
  /\ pc = "idle"
  /\ request' = req
  /\ IF validateRequest(req) /= NoResponse
     THEN /\ response' = validateRequest(req)
          /\ pc' = "done"
          /\ UNCHANGED <<requestUrls, candidates, attempt>>
     ELSE /\ requestUrls' = normalizeRequestUrls(decodeRequest(req.body).requestData)
          /\ candidates' = crawlRequestPayloadCandidates(requestUrls')
          /\ attempt' = 1
          /\ pc' = "calling"
          /\ UNCHANGED response
  /\ UNCHANGED <<endpointOk, lastResult, crawlAPICallResult, sent, replies, fnVars>>

\* One turn of the fallback loop: callCrawlAPI on the next candidate, answered
\* by the transport with `reply`; when the loop ends, the rest of the handler.
Attempt(reply) ==
  /\ pc = "calling"
  /\ reply = BadEndpointReply <=> ~endpointOk
  /\ LET result == callCrawlAPI(candidates[attempt], reply)
         returned == IF IsSuccess(result) THEN result ELSE updateLastResult(lastResult, result)
     IN /\ replies' = Append(replies, reply)
        /\ sent' = IF reply.kind = "newRequestError" THEN sent ELSE Append(sent, candidates[attempt])
        /\ IF IsSuccess(result) \/ attempt = Len(candidates)
           THEN /\ crawlAPICallResult' = returned
                /\ response' = respondToResult(returned)
                /\ pc' = "done"
                /\ UNCHANGED attempt
           ELSE /\ attempt' = attempt + 1
                /\ UNCHANGED <<crawlAPICallResult, response, pc>>
        /\ lastResult' = IF IsSuccess(result) THEN lastResult ELSE updateLastResult(lastResult, result)
  /\ UNCHANGED <<endpointOk, request, requestUrls, candidates, fnVars>>

\* The handler has returned; everything it built is dropped.
Return ==
  /\ pc = "done"
  /\ pc' = "idle"
  /\ request' = NoRequest
  /\ requestUrls' = NilSlice
  /\ candidates' = <<>>
  /\ attempt' = 0
  /\ lastResult' = ZeroResult
  /\ crawlAPICallResult' = ZeroResult
  /\ sent' = <<>>
  /\ replies' = <<>>
  /\ response' = NoResponse
  /\ UNCHANGED <<endpointOk, fnVars>>

Next ==
  \/ \E req \in Requests : Receive(req)
  \/ \E reply \in UpstreamReplies \cup {BadEndpointReply} : Attempt(reply)
  \/ Return

Spec == Init /\ [][Next]_vars

\* ------------------------------------------------- the helpers on their own
\* Inputs for the helpers, wider than what the end-to-end runs feed them.
UrlLists == {Slice(a) : a \in SeqsUpTo(ClientUrls, MaxUrls + 1)}

DecodeElements == {Obj([url |-> Str("x")]), Obj([foo |-> Str("bar")]), Str("s"), Null}
DecodeLists == {Arr(a) : a \in SeqsUpTo(DecodeElements, MaxItems)}
DecodeInputs ==
  {Null, Str("x"), Num(1), Bool(FALSE)}
  \cup DecodeLists
  \cup {Obj(MakeObj([results |-> r, data |-> d, foo |-> f]))
        : r \in Opt(DecodeLists \cup {Null, Str("x"), Obj(EmptyMap)}),
          d \in Opt({Null, Str("x"), Arr(<<>>), Arr(<<Obj([url |-> Str("y")])>>), Arr(<<Str("s")>>)}),
          f \in Opt({Str("bar")})}

MetadataObjects ==
  {Obj(MakeObj([source |-> s, title |-> t]))
   : s \in Opt({Str(""), Str("s"), Str("u1"), Num(2), Null, Obj(EmptyMap)}),
     t \in Opt({Str("t"), Str(""), Bool(TRUE)})}
MetadataRecords ==
  {MakeObj([url |-> u, metadata |-> m])
   : u \in Opt({Str(""), Str("u1"), Num(1), Null}),
     m \in Opt(MetadataObjects \cup {Str("m"), Null, Arr(<<>>)})}

ApplyCandidates ==
  /\ \E urls \in UrlLists :
       /\ fn' = "crawlRequestPayloadCandidates"
       /\ arg' = urls
       /\ out' = crawlRequestPayloadCandidates(urls)
  /\ UNCHANGED <<endpointOk, handlerVars>>

ApplyDecode ==
  /\ \E payload \in DecodeInputs :
       /\ fn' = "decodeResults"
       /\ arg' = payload
       /\ out' = decodeResults(payload)
  /\ UNCHANGED <<endpointOk, handlerVars>>

ApplyMetadata ==
  /\ \E result \in MetadataRecords :
       /\ fn' = "assembleMetadata"
       /\ arg' = result
       /\ out' = assembleMetadata(result)
  /\ UNCHANGED <<endpointOk, handlerVars>>

NextHelpers == ApplyCandidates \/ ApplyDecode \/ ApplyMetadata

SpecHelpers == Init /\ [][NextHelpers]_vars

\* ------------------------------------------------ one helper call at a time
\* The helpers keep nothing between calls: a call starts from no call at all
\* and is forgotten before the next one.
NestedMarkdown ==
  {Obj(MakeObj([filtered_markdown |-> a, fit_markdown |-> b, markdown |-> c,
                raw_markdown |-> d, content |-> e]))
   : a \in Opt({Str(""), Str("N1")}), b \in Opt({Str("N2")}),
     c \in Opt({Str("N3"), Obj(EmptyMap)}), d \in Opt({Str("N4")}),
     e \in Opt({Str("N5")})}
MarkdownRecords ==
  {MakeObj([filtered_markdown |-> a, fit_markdown |-> b, markdown |-> c,
            raw_markdown |-> d, content |-> e, page_content |-> f])
   : a \in Opt({Str(""), Str("T1")}), b \in Opt({Str("T2")}),
     c \in Opt(NestedMarkdown \cup {Str(""), Str("T3"), Num(3), Null}),
     d \in Opt({Num(4), Str("T4")}), e \in Opt({Str("T5")}), f \in Opt({Str("T6")})}

ApplyExtract ==
  /\ fn = ""
  /\ \E result \in MarkdownRecords :
       /\ fn' = "extractMarkdown"
       /\ arg' = result
       /\ out' = extractMarkdown(result)
  /\ UNCHANGED <<endpointOk, handlerVars>>

NormalizeInputs ==
  {Request(urls, url)
   : urls \in {NilSlice} \cup {Slice(a) : a \in SeqsUpTo(ClientUrls \cup {""}, MaxUrls + 1)},
     url \in ClientUrls \cup {"", "u3"}}

ApplyNormalize ==
  /\ fn = ""
  /\ \E requestData \in NormalizeInputs :
       /\ fn' = "normalizeRequestUrls"
       /\ arg' = requestData
       /\ out' = normalizeRequestUrls(requestData)
  /\ UNCHANGED <<endpointOk, handlerVars>>

\* Upstream body texts around the preview limit: padding, then n characters
\* (the second one a blank when `inner`), then padding.
Paddings == {<<>>, <<" ">>, <<"\n", "\t">>}
BodyLengths == (0..2) \cup ((maxLen - 2)..(maxLen + MaxOver))
BodyText(n, inner) ==
  [i \in 1..n |-> IF inner /\ i = 2 /\ n > 2 THEN " " ELSE IF i % 2 = 0 THEN "y" ELSE "x"]
ResponseBodies ==
  {lead \o BodyText(n, inner) \o trail
   : lead \in Paddings, trail \in Paddings, n \in BodyLengths, inner \in BOOLEAN}

ApplyPreview ==
  /\ fn = ""
  /\ \E body \in ResponseBodies :
       /\ fn' = "previewResponseBody"
       /\ arg' = body
       /\ out' = previewResponseBody(body)
  /\ UNCHANGED <<endpointOk, handlerVars>>

Forget ==
  /\ fn /= ""
  /\ fn' = ""
  /\ arg' = Null
  /\ out' = Null
  /\ UNCHANGED <<endpointOk, handlerVars>>

NextCalls == ApplyExtract \/ ApplyNormalize \/ ApplyPreview \/ Forget

SpecCalls == Init /\ [][NextCalls]_vars

\* =================================================================== claims
\* How the transport answered decides whether a candidate succeeds: the call
\* completed, the status is 200 and the body is a JSON document.
CandidateSucceeds(reply) ==
  reply.kind = "response" /\ reply.status = 200 /\ reply.body.kind = "json"

NoCandidateSucceeded == \A i \in 1..Len(replies) : ~CandidateSucceeds(replies[i])

\* C1: the candidates are attempted strictly in generator order; a candidate
\* succeeds iff its call completes with status 200 and a JSON body; the first
\* success ends the loop, its result is what the fallback returns, and no
\* later candidate is sent (one upstream call when a single-URL request's
\* first candidate succeeds); a failure is returned only after every
\* candidate was attempted.
C1_OrderedShortCircuit ==
  /\ Len(replies) <= Len(candidates)
  /\ sent = IF endpointOk THEN SubSeq(candidates, 1, Len(replies)) ELSE <<>>
  /\ pc = "calling" => attempt = Len(replies) + 1 /\ NoCandidateSucceeded
  /\ \A i \in 1..Len(replies) :
       CandidateSucceeds(replies[i]) =>
         /\ i = Len(replies)
         /\ pc = "done"
         /\ crawlAPICallResult = CrawlAPICallResult(replies[i].body.value, 200, <<>>, NoErr)
  /\ (pc = "done" /\ replies /= <<>> /\ NoCandidateSucceeded) =>
       /\ Len(replies) = Len(candidates)
       /\ ~(crawlAPICallResult.Err.isNil /\ crawlAPICallResult.StatusCode = 200)
  /\ (Len(requestUrls.elems) = 1 /\ replies /= <<>> /\ CandidateSucceeds(replies[1])) =>
       Len(sent) = 1

\* A single-URL request whose first candidate succeeded: two candidates, one call.
C1_Witness ==
  /\ pc = "done"
  /\ Len(requestUrls.elems) = 1
  /\ Len(candidates) = 2
  /\ Len(replies) = 1
  /\ CandidateSucceeds(replies[1])
  /\ sent = <<candidates[1]>>

\* The 502 detail a failed attempt calls for, from the transport's answer alone.
FailureDetail(reply) ==
  CASE reply.kind \in {"newRequestError", "doError", "readError"} -> reply.err
    [] reply.kind = "response" /\ reply.status /= 200 ->
         StatusText \o Digits(reply.status)
         \o (IF TrimSpace(reply.body.chars) = <<>> THEN <<>>
             ELSE <<":", " ">> \o previewResponseBody(reply.body.chars))
    [] OTHER -> InvalidJsonText

\* C2: when every candidate fails, the response is a 502 whose detail is that
\* of the last attempted candidate's failure and of nothing else; for a
\* single-URL request that is the URL-list-shaped attempt, whatever the kinds
\* of the two failures.
C2_LastFailureReported ==
  (pc = "done" /\ replies /= <<>> /\ NoCandidateSucceeded) =>
    /\ response = ErrorReply(502, "bad gateway", FailureDetail(replies[Len(replies)]))
    /\ Len(requestUrls.elems) = 1 =>
         /\ Len(replies) = 2
         /\ "url" \notin DOMAIN candidates[Len(replies)].o
         /\ candidates[Len(replies)].o.urls = Arr(<<Str(requestUrls.elems[1])>>)

\* Both candidates of a single-URL request failed, in different ways.
C2_Witness ==
  /\ pc = "done"
  /\ Len(requestUrls.elems) = 1
  /\ Len(replies) = 2
  /\ NoCandidateSucceeded
  /\ replies[1].kind /= replies[2].kind
  /\ FailureDetail(replies[1]) /= FailureDetail(replies[2])
  /\ response.status = 502

\* The two shapes of an upstream request body.
SingleUrlShaped(payload, url) ==
  /\ payload.t = "obj"
  /\ "url" \in DOMAIN payload.o
  /\ payload.o.url = Str(url)
  /\ Lookup(payload.o, "urls").t /= "arr"

UrlListShaped(payload, urls) ==
  /\ payload.t = "obj"
  /\ "url" \notin DOMAIN payload.o
  /\ "urls" \in DOMAIN payload.o
  /\ payload.o.urls = Arr([i \in 1..Len(urls) |-> Str(urls[i])])

\* C3: for a list of exactly one URL the generator yields two candidates, the
\* single-URL shape first and the URL-list shape with that URL second; for a
\* list of more than one URL (duplicates counted) it yields one candidate, the
\* URL-list shape with all URLs in order.
C3_CandidateShapes ==
  fn = "crawlRequestPayloadCandidates" =>
    /\ Len(arg.elems) = 1 =>
         /\ Len(out) = 2
         /\ SingleUrlShaped(out[1], arg.elems[1])
         /\ UrlListShaped(out[2], arg.elems)
    /\ Len(arg.elems) > 1 =>
         /\ Len(out) = 1
         /\ UrlListShaped(out[1], arg.elems)

\* The generator was applied to a one-URL list and gave two candidates.
C3_Witness ==
  /\ fn = "crawlRequestPayloadCandidates"
  /\ Len(arg.elems) = 1
  /\ Len(out) = 2

\* The fixed default options of an upstream request body.
HasDefaultOptions(payload) ==
  /\ payload.t = "obj"
  /\ Lookup(payload.o, "browserConfig").t = "obj"
  /\ Lookup(payload.o.browserConfig.o, "text_mode") = Bool(TRUE)
  /\ Lookup(payload.o, "crawlerRunConfig").t = "obj"
  /\ \A key \in {"remove_overlay_elements", "magic", "exclude_all_images"} :
       Lookup(payload.o.crawlerRunConfig.o, key) = Bool(TRUE)

\* C4: every candidate payload carries browserConfig.text_mode = true and
\* crawlerRunConfig.remove_overlay_elements = magic = exclude_all_images = true.
C4_DefaultOptions ==
  fn = "crawlRequestPayloadCandidates" =>
    \A i \in 1..Len(out) : HasDefaultOptions(out[i])

\* What the client sent, read off the request itself.
JsonContentType(req) == HasPrefix(req.contentType, ApplicationJson)

NoUsableUrl(body) ==
  /\ body.kind = "json"
  /\ body.value.t \in {"obj", "null"}
  /\ body.value.t = "obj" =>
     /\ \/ "urls" \notin DOMAIN body.value.o
        \/ /\ body.value.o.urls.t = "arr"
           /\ \A i \in 1..Len(body.value.o.urls.a) : body.value.o.urls.a[i] = Str("")
     /\ \/ "url" \notin DOMAIN body.value.o
        \/ body.value.o.url = Str("")

Unparseable(body) ==
  \/ body.kind = "text"
  \/ body.value.t \in {"str", "arr"}
  \/ /\ body.value.t = "obj"
     /\ "urls" \in DOMAIN body.value.o
     /\ body.value.o.urls.t = "str"

\* C5: a POST with a JSON content type whose URL fields are absent or hold only
\* empty strings, or whose body cannot be parsed, is answered 400 with no
\* upstream call; in every run a 400 or 405 response means that no upstream
\* call was made for the request.
C5_RejectedWithoutUpstreamCall ==
  /\ (/\ pc /= "idle"
      /\ request.method = "POST"
      /\ JsonContentType(request)
      /\ NoUsableUrl(request.body) \/ Unparseable(request.body)) =>
       /\ pc = "done"
       /\ response.status = 400
       /\ sent = <<>>
       /\ replies = <<>>
  /\ response.status \in {400, 405} => sent = <<>> /\ replies = <<>>

\* A JSON POST whose URL fields hold only empty strings was answered 400.
C5_Witness ==
  /\ pc = "done"
  /\ request.method = "POST"
  /\ request.contentType = ApplicationJson
  /\ request.body = JsonBody(Obj([urls |-> Arr(<<Str("")>>), url |-> Str("")]))
  /\ response.status = 400
  /\ sent = <<>>

\* A body that passes every check when posted with a JSON content type.
ValidCrawlBody == JsonBody(Obj([url |-> Str("u1")]))

\* C6: every non-POST request is answered 405 whatever its content type and
\* body, and every POST whose content type does not start with
\* application/json is answered 400 whatever its body.
C6_MethodThenContentType ==
  /\ (pc /= "idle" /\ request.method /= "POST") =>
       /\ pc = "done"
       /\ response = ErrorReply(405, "method not allowed", <<>>)
  /\ (pc /= "idle" /\ request.method = "POST" /\ ~JsonContentType(request)) =>
       /\ pc = "done"
       /\ response = ErrorReply(400, "content type must be application/json", <<>>)

\* A GET with a wrong content type and an otherwise valid body was answered 405.
C6_Witness ==
  /\ pc = "done"
  /\ request.method = "GET"
  /\ ~JsonContentType(request)
  /\ request.body = ValidCrawlBody
  /\ response.status = 405

\* The object elements of a sequence, in order.
RECURSIVE ObjectElements(_)
ObjectElements(a) ==
  IF a = <<>> THEN <<>>
  ELSE IF Head(a).t = "obj" THEN <<Head(a).o>> \o ObjectElements(Tail(a))
  ELSE ObjectElements(Tail(a))

IsSequenceField(payload, key) == key \in DOMAIN payload.o /\ payload.o[key].t = "arr"

\* C7: a top-level sequence decodes to its object elements, in order; an
\* object with a `results` sequence to that sequence's object elements; else
\* an object with a `data` sequence to that one's; else an object to itself as
\* a one-element list; a scalar or null to the malformed signal, which no
\* sequence or object decodes to, not even one without object elements.
C7_DecodeRules ==
  fn = "decodeResults" =>
    /\ arg.t = "arr" => out = Slice(ObjectElements(arg.a))
    /\ (arg.t = "obj" /\ IsSequenceField(arg, "results")) =>
         out = Slice(ObjectElements(arg.o.results.a))
    /\ (arg.t = "obj" /\ ~IsSequenceField(arg, "results") /\ IsSequenceField(arg, "data")) =>
         out = Slice(ObjectElements(arg.o.data.a))
    /\ (arg.t = "obj" /\ ~IsSequenceField(arg, "results") /\ ~IsSequenceField(arg, "data")) =>
         out = Slice(<<arg.o>>)
    /\ arg.t \notin {"arr", "obj"} => out = NilSlice
    /\ out.isNil <=> arg.t \notin {"arr", "obj"}

\* An object whose `results` and `data` are both sequences, with different
\* object elements, `results` holding a non-object that was dropped.
C7_Witness ==
  /\ fn = "decodeResults"
  /\ arg.t = "obj"
  /\ IsSequenceField(arg, "results")
  /\ IsSequenceField(arg, "data")
  /\ ObjectElements(arg.o.results.a) /= ObjectElements(arg.o.data.a)
  /\ Len(out.elems) < Len(arg.o.results.a)
  /\ Len(out.elems) > 0

UpstreamSucceeded == replies /= <<>> /\ CandidateSucceeds(replies[Len(replies)])

\* C8: after a successful upstream call the response is the 502 structure
\* error iff the decoder yields the malformed signal; otherwise it is 200 with
\* one item per decoded record, in order, so a well-formed answer without
\* records gives 200 with zero items.
C8_OneItemPerRecord ==
  (pc = "done" /\ UpstreamSucceeded) =>
    LET crawlResults == decodeResults(replies[Len(replies)].body.value)
    IN /\ response.status \in {200, 502}
       /\ response.status = 502 <=> crawlResults.isNil
       /\ crawlResults.isNil =>
            response = ErrorReply(502, "bad gateway", InvalidStructureText)
       /\ ~crawlResults.isNil =>
            /\ response.body.t = "arr"
            /\ Len(response.body.a) = Len(crawlResults.elems)
            /\ \A i \in 1..Len(crawlResults.elems) :
                 /\ response.body.a[i].o.page_content = Str(extractMarkdown(crawlResults.elems[i]))
                 /\ response.body.a[i].o.metadata.o =
                      [k \in DOMAIN assembleMetadata(crawlResults.elems[i]) |->
                         Str(assembleMetadata(crawlResults.elems[i])[k])]

\* The upstream answered with a `results` sequence holding no object; the
\* response is 200 with zero items.
C8_Witness ==
  /\ pc = "done"
  /\ UpstreamSucceeded
  /\ replies[Len(replies)].body.value = Obj([results |-> Arr(<<Str("x")>>)])
  /\ response = Response(200, Arr(<<>>))

\* The client posted the single URL u; the upstream rejected the single-URL
\* shape with a non-200 status, then accepted the URL-list shape with
\* {results: [{url: u, markdown: {fit_markdown: m}}]}.
FallbackSuccess(u, m) ==
  /\ pc = "done"
  /\ request.body = JsonBody(Obj([url |-> Str(u)]))
  /\ Len(replies) = 2
  /\ replies[1].kind = "response" /\ replies[1].status /= 200
  /\ SingleUrlShaped(sent[1], u)
  /\ UrlListShaped(sent[2], <<u>>)
  /\ replies[2] = HttpReply(200, JsonBody(Obj([results |-> Arr(<<
         Obj([url |-> Str(u), markdown |-> Obj([fit_markdown |-> Str(m)])])>>)])))

SuccessItems == IF response.status = 200 THEN response.body.a ELSE <<>>

C10_MetadataEntries ==
  fn = "assembleMetadata" =>
    LET upstream == Lookup(arg, "metadata")
        url == Lookup(arg, "url")
        hasUrl == url.t = "str" /\ url.s /= ""
        kept(k) == /\ upstream.t = "obj"
                   /\ k \in DOMAIN upstream.o
                   /\ upstream.o[k].t = "str"
                   /\ upstream.o[k].s /= ""
    IN /\ \A k \in DOMAIN out :
            \/ hasUrl /\ k = "source"
            \/ kept(k) /\ out[k] = upstream.o[k].s
       /\ hasUrl => "source" \in DOMAIN out /\ out["source"] = url.s
       /\ ~hasUrl => ("source" \in DOMAIN out <=> kept("source"))
       /\ upstream.t /= "obj" => DOMAIN out \subseteq {"source"}

\* A record with a url and an upstream `source` that differs from it.
C10_Witness ==
  /\ fn = "assembleMetadata"
  /\ Lookup(arg, "url") = Str("u1")
  /\ Lookup(arg, "metadata").t = "obj"
  /\ Lookup(Lookup(arg, "metadata").o, "source") = Str("s")
  /\ out["source"] = "u1"

\* The first key of `order` under which m holds a non-empty string, and that
\* string; "" when there is none.
FirstHit(m, order) ==
  LET hits == {i \in 1..Len(order) :
                 /\ order[i] \in DOMAIN m
                 /\ m[order[i]].t = "str"
                 /\ m[order[i]].s /= ""}
  IN IF hits = {} THEN ""
     ELSE m[order[CHOOSE i \in hits : \A j \in hits : i <= j]].s

TopOrder == <<"filtered_markdown", "fit_markdown", "markdown", "raw_markdown", "content", "page_content">>
NestedOrder == <<"filtered_markdown", "fit_markdown", "markdown", "raw_markdown">>

\* C11: extractMarkdown returns the first non-empty string among the record's
\* top-level keys filtered_markdown, fit_markdown, markdown, raw_markdown,
\* content, page_content; only when there is none and `markdown` is an object,
\* the first non-empty string among that object's keys filtered_markdown,
\* fit_markdown, markdown, raw_markdown; otherwise the empty string.
C11_ExtractionOrder ==
  fn = "extractMarkdown" =>
    IF FirstHit(arg, TopOrder) /= "" THEN out = FirstHit(arg, TopOrder)
    ELSE IF "markdown" \in DOMAIN arg /\ arg["markdown"].t = "obj"
    THEN out = FirstHit(arg["markdown"].o, NestedOrder)
    ELSE out = ""

\* No top-level string; the nested object has both fit and raw markdown, and
\* the fit markdown was returned.
C11_Witness ==
  /\ fn = "extractMarkdown"
  /\ FirstHit(arg, TopOrder) = ""
  /\ "markdown" \in DOMAIN arg
  /\ arg["markdown"] = Obj([fit_markdown |-> Str("N2"), raw_markdown |-> Str("N4")])
  /\ out = "N2"

\* A sequence of strings without its empty entries, order kept.
RECURSIVE DropEmpty(_)
DropEmpty(a) ==
  IF a = <<>> THEN <<>>
  ELSE IF Head(a) = "" THEN DropEmpty(Tail(a))
  ELSE <<Head(a)>> \o DropEmpty(Tail(a))

\* C12: normalizeRequestUrls returns the non-empty entries of the URL list in
\* their order, followed by the single URL if it is non-empty: no empty string
\* in the result, the single URL last, duplicates kept.
C12_NormalizedUrls ==
  fn = "normalizeRequestUrls" =>
    /\ ~out.isNil
    /\ \A i \in 1..Len(out.elems) : out.elems[i] /= ""
    /\ out.elems = DropEmpty(arg.Urls.elems) \o (IF arg.Url = "" THEN <<>> ELSE <<arg.Url>>)
    /\ arg.Url /= "" => out.elems[Len(out.elems)] = arg.Url
    /\ Len(out.elems) = Cardinality({i \in 1..Len(arg.Urls.elems) : arg.Urls.elems[i] /= ""})
                        + (IF arg.Url = "" THEN 0 ELSE 1)

\* A list with an empty entry in the middle and a single URL that is also in
\* the list: the empty entry is gone, the single URL is last and appears twice.
C12_Witness ==
  /\ fn = "normalizeRequestUrls"
  /\ arg = Request(Slice(<<"u1", "", "u2">>), "u1")
  /\ out.elems = <<"u1", "u2", "u1">>

\* A text without its leading, and without its trailing, whitespace.
RECURSIVE StripLeft(_)
StripLeft(s) == IF s /= <<>> /\ IsSpace(Head(s)) THEN StripLeft(Tail(s)) ELSE s
RECURSIVE StripRight(_)
StripRight(s) ==
  IF s /= <<>> /\ IsSpace(s[Len(s)]) THEN StripRight(SubSeq(s, 1, Len(s) - 1)) ELSE s

\* A candidate fails with status 500 and the body text `body`: what callCrawlAPI
\* captures, and the detail of the 502 answered for it.
CapturedPreview(body) == callCrawlAPI(Null, HttpReply(500, TextBody(body))).BodyPreview
DetailFor(body) ==
  respondToResult(callCrawlAPI(Null, HttpReply(500, TextBody(body)))).body.o.detail.c

\* C13 as stated: the preview of a non-200 body, as captured in the result and
\* as placed in the 502 detail, is at most 300 characters long.
C13_AtMost300 ==
  fn = "previewResponseBody" =>
    /\ Len(out) <= 300
    /\ Len(CapturedPreview(arg)) <= 300
    /\ Len(DetailFor(arg)) <= Len(StatusText) + 3 + 2 + 300

\* C13, amended: the preview is the body trimmed of surrounding whitespace,
\* whole when that is at most 300 long, else its first 300 characters followed
\* by "..."; as captured in the result and as placed in the 502 detail it is
\* at most 303 characters long.
C13_AtMost303 ==
  fn = "previewResponseBody" =>
    LET text == StripRight(StripLeft(arg))
    IN /\ Len(text) <= 300 => out = text
       /\ Len(text) > 300 => out = SubSeq(text, 1, 300) \o <<".", ".", ".">>
       /\ Len(out) <= 303
       /\ CapturedPreview(arg) = out
       /\ DetailFor(arg) =
            StatusText \o <<"5", "0", "0">> \o (IF out = <<>> THEN <<>> ELSE <<":", " ">> \o out)

\* A padded body whose trimmed text is longer than 300: the preview is cut
\* and marked, 303 characters in all.
C13_Witness ==
  /\ fn = "previewResponseBody"
  /\ Len(arg) > 300
  /\ IsSpace(arg[1])
  /\ IsSpace(arg[Len(arg)])
  /\ Len(StripRight(StripLeft(arg))) > 300
  /\ Len(out) = 303
====
